---- MODULE Spec2Model ----
(***************************************************************************)
(* A model of collectors/behavioral.py: one run of get_behavioral_metrics  *)
(* for one URL, with its helpers _safe_click, _dismiss_overlays,           *)
(* _find_product_url and _count_broken_links.  Every await of the source   *)
(* is a step whose outcome (success, a miss, an exception) the page        *)
(* decides; the model draws it with \E.  The driver of main.py             *)
(* (run_pipeline, collect_one, save_row) is modelled around it, a call of  *)
(* get_behavioral_metrics being one step there.                            *)
(*                                                                         *)
(* Specifications: Spec (one run of get_behavioral_metrics), SpecLive      *)
(* (the same run when every awaited operation completes or times out),     *)
(* SpecHelpers (one call of _safe_click or _dismiss_overlays, history      *)
(* recorded), SpecOverlays (_dismiss_overlays on a site that keeps         *)
(* presenting overlays), SpecLinks (_count_broken_links on bounded         *)
(* navigation regions), SpecDiscovery (_find_product_url on bounded        *)
(* landing pages) and SpecPipeline (run_pipeline on bounded inputs).       *)
(***************************************************************************)
EXTENDS Integers, Sequences, FiniteSets, TLC

VARIABLES
    pc,             \* position in get_behavioral_metrics
    outcome,        \* "running" | "returned" | "raised"
    raisedAt,       \* the step whose exception left get_behavioral_metrics
    defaults,       \* the result record (behavioral.py:200-210)
    click_depth,    \* local click_depth (0 before line 263 assigns it)
    product_url,    \* local product_url
    result,         \* locals added, cart_reached, checkout_reached
    browser,        \* "none" | "open" | "closed" | "close_failed"
    ctxs,           \* ctx, ctx2, ctx3: "none" | "open" | "closed" | "close_failed"
    browser_closes, \* number of browser.close() calls made
    i,              \* index of the candidate the running cascade is at
    round,          \* _dismiss_overlays: the round (0-based, as range(5))
    dismissed,      \* _dismiss_overlays: local dismissed
    count,          \* _dismiss_overlays: local count
    ret,            \* _dismiss_overlays: the call site to return to
    overlaysLeft,   \* overlays the site can still present
    cartStore,      \* where the site keeps the cart: "none" | "jar_ctx" | "server"
    text_left,      \* some search input of the page still holds typed text
    location,       \* the page the primary session shows
    probed,         \* traversal cascades that probed at least one selector
    screenshot,     \* "none" | "attempted" | "taken"
    fatal,          \* the handler of line 326 ran
    halted,         \* the traversal step that failed ("none": no step failed)
    sessions_run,   \* secondary sessions whose try block was entered
    tracing,        \* whether the per-call history below is recorded
    probes,         \* probes made by the running _dismiss_overlays call
    log,            \* outcomes of the probes of the running _safe_click call
    last,           \* outcome of the latest cascade probe
    shown,          \* of "search_input" and "guest_checkout": the controls
                    \* a probe of the run has found visible
    measured,       \* the scroll width the mobile session measured (-1: none)
    nav_in,         \* the navigation regions the link sampler is run on
    requests,       \* the targets the link sampler requested, in order
    page_in,        \* the landing page product discovery is run on
    urls,           \* run_pipeline: the input lines
    cur,            \* run_pipeline: index of the line the loop is at
    dpc,            \* position in run_pipeline / collect_one
    row,            \* collect_one: the row being built
    page_html,      \* collect_one: local page_html
    csv,            \* the output file: whether it exists, and its records
    shot_file,      \* the file at SCREENSHOT_PATH: index of the URL whose run
                    \* wrote it (0: no such file)
    clock,          \* readings of datetime.utcnow() made so far
    scored,         \* index of the URL whose image the row's visual scores
                    \* come from (0: no image was scored)
    saved           \* the calls of save_row made so far, in order

vars == <<pc, outcome, raisedAt, defaults, click_depth, product_url, result,
          browser, ctxs, browser_closes, i, round, dismissed, count, ret,
          overlaysLeft, cartStore, text_left, location, probed, screenshot,
          fatal, halted, sessions_run, tracing, probes, log, last,
          shown, measured, nav_in, requests, page_in,
          urls, cur, dpc, row, page_html, csv, shot_file, clock, scored,
          saved>>

runVars  == <<defaults, click_depth, product_url, result>>
resVars  == <<browser, ctxs, browser_closes>>
ovVars   == <<round, dismissed, count, ret, probes>>
envVars  == <<overlaysLeft, cartStore, text_left, location>>
histVars == <<probed, screenshot, fatal, halted, sessions_run>>
trcVars  == <<tracing, log, last>>
obsVars  == <<shown, measured>>
samplerVars == <<nav_in, requests, page_in>>
driverVars  == <<urls, cur, dpc, row, page_html, csv, shot_file, clock,
                 scored, saved>>
outerVars   == <<samplerVars, driverVars>>

---------------------------------------------------------------------------
(* Bounds of the environment *)

\* overlays a site presents during one run
MaxOverlays == 6

---------------------------------------------------------------------------
(* Selector lists, behavioral.py:32-87 *)

CLOSE_OVERLAY_SELECTORS ==
    << "[aria-label*='close' i]", "[aria-label*='dismiss' i]",
       "button:has-text('U+00D7')", "button:has-text('U+2715')",
       "button:has-text('Close')", "button:has-text('No thanks')",
       "button:has-text('Maybe later')", ".modal-close", ".popup-close",
       "#onetrust-accept-btn-handler", ".cc-btn.cc-dismiss",
       "[data-testid='close-button']", "[class*='close']", "[id*='close']" >>

CART_SELECTORS ==
    << "a[href*='cart']", "a[href*='basket']", "a[href*='bag']",
       "[aria-label*='cart' i]", "[aria-label*='basket' i]",
       "[data-testid*='cart']", ".cart-icon", "#cart" >>

CHECKOUT_SELECTORS ==
    << "a[href*='checkout']", "button:has-text('Checkout')",
       "button:has-text('Proceed to checkout')",
       "button:has-text('Go to checkout')", "a:has-text('Checkout')" >>

GUEST_CHECKOUT_SELECTORS ==
    << "button:has-text('Guest')", "a:has-text('Guest')",
       "button:has-text('Continue as guest')", "a:has-text('Continue as guest')",
       "input[value*='guest' i]", "[data-testid*='guest']" >>

ADD_TO_CART_SELECTORS ==
    << "button:has-text('Add to cart')", "button:has-text('Add to bag')",
       "button:has-text('Add to basket')", "button:has-text('Buy now')",
       "[data-testid*='add-to-cart']", ".add-to-cart", "#add-to-cart",
       "button[name*='add']" >>

SEARCH_INPUT_SELECTORS ==
    << "input[type='search']", "input[name='q']", "input[name='query']",
       "input[placeholder*='search' i]", "[aria-label*='search' i] input",
       "#search", ".search-input" >>

QUICK_BUY_SELECTORS ==
    << "button:has-text('Buy now')", "button:has-text('Buy Now')",
       "[data-testid*='buy-now']", "[class*='buy-now']", ".quick-buy" >>

\* range(5) of _dismiss_overlays
OverlayRounds == 5

\* VIEWPORT_MOBILE["width"]
ViewportMobileWidth == 390

\* the tolerance added to the viewport width
ScrollTolerance == 20

---------------------------------------------------------------------------
(* Text: a string is a sequence of one-character strings *)

Lower(s) ==
    [k \in 1..Len(s) |->
        CASE s[k] = "B" -> "b" [] s[k] = "E" -> "e" [] s[k] = "I" -> "i"
          [] s[k] = "Q" -> "q" [] s[k] = "S" -> "s" [] s[k] = "Y" -> "y"
          [] s[k] = "N" -> "n" [] s[k] = "P" -> "p"
          [] OTHER -> s[k]]

Contains(kw, s) ==
    \E k \in 1..(Len(s) - Len(kw) + 1) : SubSeq(s, k, k + Len(kw) - 1) = kw

CartKeywords ==
    { <<"i","t","e","m">>, <<"p","r","o","d","u","c","t">>,
      <<"q","u","a","n","t","i","t","y">>, <<"s","u","b","t","o","t","a","l">> }

\* bodies a site serves at /cart to a session it knows no cart for
EmptyCartBodies ==
    { <<"Y","o","u","r"," ","b","a","g"," ","i","s"," ","e","m","p","t","y">>,
      <<"B","a","g",":"," ","0"," ","I","t","e","m","s">>,
      <<"N","o","t"," ","f","o","u","n","d">> }

\* bodies a site serves at /cart to a session it knows a cart for
FilledCartBodies ==
    { <<"S","h","i","r","t"," ","Q","u","a","n","t","i","t","y"," ","1">>,
      <<"B","a","g",":"," ","1"," ","I","t","e","m">> }

CartPersistenceOf(body) ==
    IF \E kw \in CartKeywords : Contains(kw, Lower(body)) THEN 1 ELSE 0

\* MobileResponsiveOf with the boundary excluded
MobileResponsiveOf_Strict(scroll_width) ==
    IF scroll_width < ViewportMobileWidth + ScrollTolerance THEN 1 ELSE 0

\* int(scroll_width <= viewport_width + 20)
MobileResponsiveOf(scroll_width) ==
    IF scroll_width <= ViewportMobileWidth + ScrollTolerance THEN 1 ELSE 0

ScrollWidths ==
    { ViewportMobileWidth, ViewportMobileWidth + ScrollTolerance,
      ViewportMobileWidth + ScrollTolerance + 1 }

---------------------------------------------------------------------------
(* URLs and anchors.  The fixture site lives at url; hrefs are drawn from  *)
(* Hrefs, and the string functions of the source are tabulated on them.    *)

url == "https://shop.example/"

None == "None"

\* the hrefs of a long menu, "/page/1" to "/page/12"
PagedHref ==
    << "/page/1", "/page/2", "/page/3", "/page/4", "/page/5", "/page/6",
       "/page/7", "/page/8", "/page/9", "/page/10", "/page/11", "/page/12" >>

PagedHrefs == { PagedHref[k] : k \in DOMAIN PagedHref }

Hrefs ==
    { "", "/", "#top", "/about", "/sale#x", "/product/42", "mailto:a@b",
      "tel:123", "https://shop.example/item/7", "https://other.example/p/1",
      "https://shop.example/about" } \cup PagedHrefs

\* urljoin(base_url, href) for base_url = url
urljoin(base, href) ==
    CASE href = ""            -> base
      [] href = "/"           -> "https://shop.example/"
      [] href = "#top"        -> "https://shop.example/#top"
      [] href = "/about"      -> "https://shop.example/about"
      [] href = "/sale#x"     -> "https://shop.example/sale#x"
      [] href = "/product/42" -> "https://shop.example/product/42"
      [] href \in PagedHrefs  -> "https://shop.example" \o href
      [] OTHER                -> href

\* urlparse(u).netloc
netloc(u) ==
    CASE u \in { "mailto:a@b", "tel:123" }   -> ""
      [] u = "https://other.example/p/1"     -> "other.example"
      [] OTHER                               -> "shop.example"

\* PRODUCT_LINK_PATTERNS.search(href), behavioral.py:68-70
PRODUCT_LINK_PATTERNS ==
    { "/product/42", "https://shop.example/item/7", "https://other.example/p/1" }

\* href.startswith(("/", base_url))
StartsWithSlashOrBase(href) ==
    href \in { "/", "/about", "/sale#x", "/product/42",
               "https://shop.example/item/7", "https://shop.example/about" }
                 \cup PagedHrefs

\* "#" in href
HasFragment(href) == href \in { "#top", "/sale#x" }

\* href.startswith(("#", "mailto:", "tel:"))
StartsWithSkipped(href) == href \in { "#top", "mailto:a@b", "tel:123" }

\* an anchor element: its href, whether reading the attribute raises, and
\* the status a GET of its target returns (0: the request raises)
Anchor(h, st) == [href |-> h, raises |-> FALSE, status |-> st]

Vanished == [href |-> "", raises |-> TRUE, status |-> 0]

Min(a, b) == IF a <= b THEN a ELSE b

FirstOf(S) == IF S = {} THEN 0 ELSE CHOOSE k \in S : \A j \in S : k <= j

\* anchors[:60]
PatternScanCap == 60

\* anchors[5:30]
WindowSkip == 5

WindowEnd == 30

\* anchors[:10]
LinkSampleCap == 10

\* _find_product_url trying the product grid before the pattern scan
_find_product_url_GridFirst(page, base) ==
    LET anchors == page.anchors
        s1 == FirstOf({ k \in 1..Min(Len(anchors), PatternScanCap) :
                          /\ ~anchors[k].raises
                          /\ anchors[k].href # ""
                          /\ anchors[k].href \in PRODUCT_LINK_PATTERNS })
        s2 == FirstOf({ k \in 1..Len(page.grid) :
                          page.grid[k] \notin { "RAISE", "" } })
        s3 == FirstOf({ k \in (WindowSkip + 1)..Min(Len(anchors), WindowEnd) :
                          /\ ~anchors[k].raises
                          /\ anchors[k].href # ""
                          /\ StartsWithSlashOrBase(anchors[k].href)
                          /\ ~HasFragment(anchors[k].href) })
    IN  IF s2 # 0 THEN urljoin(base, page.grid[s2])
        ELSE IF s1 # 0 THEN urljoin(base, anchors[s1].href)
        ELSE IF s3 # 0 THEN urljoin(base, anchors[s3].href)
        ELSE None

\* _find_product_url: page.anchors is the result of locator("a[href]").all(),
\* page.grid[k] the href read through the k-th grid selector ("RAISE": the
\* read raised, "": no href)
_find_product_url(page, base) ==
    LET anchors == page.anchors
        s1 == FirstOf({ k \in 1..Min(Len(anchors), PatternScanCap) :
                          /\ ~anchors[k].raises
                          /\ anchors[k].href # ""
                          /\ anchors[k].href \in PRODUCT_LINK_PATTERNS })
        s2 == FirstOf({ k \in 1..Len(page.grid) :
                          page.grid[k] \notin { "RAISE", "" } })
        s3 == FirstOf({ k \in (WindowSkip + 1)..Min(Len(anchors), WindowEnd) :
                          /\ ~anchors[k].raises
                          /\ anchors[k].href # ""
                          /\ StartsWithSlashOrBase(anchors[k].href)
                          /\ ~HasFragment(anchors[k].href) })
    IN  IF s1 # 0 THEN urljoin(base, anchors[s1].href)
        ELSE IF s2 # 0 THEN urljoin(base, page.grid[s2])
        ELSE IF s3 # 0 THEN urljoin(base, anchors[s3].href)
        ELSE None

\* Tally counting a check that raised as a broken link
Tally_CountsFailures(broken, status) ==
    IF status \in { 404, 0 } THEN broken + 1 ELSE broken

\* if resp.status == 404: broken += 1
Tally(broken, status) == IF status = 404 THEN broken + 1 ELSE broken

RECURSIVE BrokenFrom(_, _, _, _, _)
BrokenFrom(anchors, base, k, seen, broken) ==
    IF k > Min(Len(anchors), LinkSampleCap) THEN broken
    ELSE LET a == anchors[k] IN
         IF \/ a.raises
            \/ a.href = ""
            \/ a.href \in seen
            \/ StartsWithSkipped(a.href)
         THEN BrokenFrom(anchors, base, k + 1, seen, broken)
         ELSE IF netloc(urljoin(base, a.href)) # netloc(base)
         THEN BrokenFrom(anchors, base, k + 1, seen, broken)
         ELSE BrokenFrom(anchors, base, k + 1, seen \cup {a.href},
                         Tally(broken, a.status))

\* the calls page.request.get(full, ...) of the same loop, in order
RECURSIVE RequestedFrom(_, _, _, _, _)
RequestedFrom(anchors, base, k, seen, reqs) ==
    IF k > Min(Len(anchors), LinkSampleCap) THEN reqs
    ELSE LET a == anchors[k] IN
         IF \/ a.raises
            \/ a.href = ""
            \/ a.href \in seen
            \/ StartsWithSkipped(a.href)
         THEN RequestedFrom(anchors, base, k + 1, seen, reqs)
         ELSE IF netloc(urljoin(base, a.href)) # netloc(base)
         THEN RequestedFrom(anchors, base, k + 1, seen, reqs)
         ELSE RequestedFrom(anchors, base, k + 1, seen \cup {a.href},
                            Append(reqs, urljoin(base, a.href)))

\* _count_broken_links: nav.raises says that enumerating the anchors raised
_count_broken_links(nav, base) ==
    IF nav.raises THEN 0 ELSE BrokenFrom(nav.anchors, base, 1, {}, 0)

NoGrid == << "RAISE", "RAISE", "RAISE", "RAISE", "RAISE" >>

\* the requests _count_broken_links makes on nav
RequestsOf(nav, base) ==
    IF nav.raises THEN << >> ELSE RequestedFrom(nav.anchors, base, 1, {}, << >>)

\* landing pages as product discovery sees them
PageFixtures ==
    { [anchors |-> << >>, grid |-> NoGrid],
      [anchors |-> << Anchor("/about", 200), Vanished, Anchor("/product/42", 200) >>,
       grid |-> NoGrid],
      [anchors |-> << Anchor("/", 200) >>,
       grid |-> << "RAISE", "", "/", "/about", "RAISE" >>],
      [anchors |-> << Anchor("/about", 200) >>,
       grid |-> << "", "RAISE", "/about", "/product/42", "RAISE" >>],
      [anchors |-> << Anchor("/", 200), Anchor("#top", 200), Anchor("/", 200),
                      Anchor("mailto:a@b", 200), Anchor("tel:123", 200),
                      Anchor("/sale#x", 200), Vanished, Anchor("/about", 200) >>,
       grid |-> NoGrid],
      [anchors |-> << Anchor("/about", 200), Anchor("#top", 200) >>,
       grid |-> NoGrid] }

\* navigation regions as the link sampler sees them
NavFixtures ==
    { [raises |-> TRUE,  anchors |-> << >>],
      [raises |-> FALSE, anchors |-> << >>],
      [raises |-> FALSE,
       anchors |-> << Anchor("https://other.example/p/1", 404),
                      Anchor("/about", 404), Anchor("/", 200) >>],
      [raises |-> FALSE,
       anchors |-> << Anchor("/about", 404), Anchor("/about", 404),
                      Anchor("#top", 404), Anchor("/product/42", 404),
                      Vanished, Anchor("/", 0) >>],
      [raises |-> FALSE,
       anchors |-> << Anchor("mailto:a@b", 404), Anchor("tel:123", 404),
                      Anchor("", 404), Anchor("/about", 500) >>] }

---------------------------------------------------------------------------
(* State *)

Ctxs == { "ctx", "ctx2", "ctx3" }

\* Defaults with the depth defaulting to 0 instead of -1
Defaults_ZeroDepth ==
    [ popup_count             |-> 0,
      has_guest_checkout      |-> 0,
      click_depth_to_checkout |-> 0,
      cart_persistence        |-> 0,
      has_search_autosuggest  |-> 0,
      has_quick_buy           |-> 0,
      broken_link_count       |-> 0,
      is_mobile_responsive    |-> 0,
      page_html               |-> "" ]

\* the defaults dict of get_behavioral_metrics
Defaults ==
    [ popup_count             |-> 0,
      has_guest_checkout      |-> 0,
      click_depth_to_checkout |-> -1,
      cart_persistence        |-> 0,
      has_search_autosuggest  |-> 0,
      has_quick_buy           |-> 0,
      broken_link_count       |-> 0,
      is_mobile_responsive    |-> 0,
      page_html               |-> "" ]

NoResult == [added |-> "unset", cart_reached |-> "unset", checkout_reached |-> "unset"]

\* the positions at which _safe_click runs, and the list each is called with
ClickPcs == { "add_to_cart", "go_to_cart", "go_to_checkout" }

SelectorsAt(p) ==
    CASE p = "add_to_cart"    -> ADD_TO_CART_SELECTORS
      [] p = "go_to_cart"     -> CART_SELECTORS
      [] p = "go_to_checkout" -> CHECKOUT_SELECTORS
      [] p = "guest"          -> GUEST_CHECKOUT_SELECTORS
      [] p = "search"         -> SEARCH_INPUT_SELECTORS
      [] p = "dismiss"        -> CLOSE_OVERLAY_SELECTORS
      [] OTHER                -> QUICK_BUY_SELECTORS

\* the link sampler and the driver at rest
NoNav == [raises |-> TRUE, anchors |-> << >>]

NoFile == [exists |-> FALSE, records |-> << >>]

NoRow == [c \in {} |-> ""]

NoPage == [raises |-> TRUE, anchors |-> << >>, grid |-> << >>]

OuterIdle ==
    /\ nav_in = NoNav
    /\ requests = << >>
    /\ page_in = NoPage
    /\ urls = << >>
    /\ cur = 0
    /\ dpc = "idle"
    /\ row = NoRow
    /\ page_html = ""
    /\ csv = NoFile
    /\ shot_file = 0
    /\ clock = 0
    /\ scored = 0
    /\ saved = << >>

\* get_behavioral_metrics not yet called
RunInit ==
    /\ pc = "launch"
    /\ outcome = "running"
    /\ raisedAt = "none"
    /\ defaults = Defaults
    /\ click_depth = 0
    /\ product_url = None
    /\ result = NoResult
    /\ browser = "none"
    /\ ctxs = [c \in Ctxs |-> "none"]
    /\ browser_closes = 0
    /\ i = 0
    /\ round = 0
    /\ dismissed = FALSE
    /\ count = 0
    /\ ret = "none"
    /\ overlaysLeft = MaxOverlays
    /\ cartStore = "none"
    /\ text_left = FALSE
    /\ location = "blank"
    /\ probed = {}
    /\ screenshot = "none"
    /\ fatal = FALSE
    /\ halted = "none"
    /\ sessions_run = {}
    /\ tracing = FALSE
    /\ probes = 0
    /\ log = << >>
    /\ last = "none"
    /\ shown = {}
    /\ measured = -1

Init == RunInit /\ OuterIdle

---------------------------------------------------------------------------
(* Control transfers *)

\* an exception leaves get_behavioral_metrics
Raise(at) ==
    /\ pc' = "raised"
    /\ outcome' = "raised"
    /\ raisedAt' = at

\* except Exception as e (line 326), then the finally of line 329
Fatal ==
    /\ pc' = "ctx_close"
    /\ fatal' = TRUE

\* except Exception as e (line 316): on to the screenshot
TraversalFailed ==
    /\ pc' = "screenshot_goto"
    /\ halted' = pc

\* the call _dismiss_overlays(page) made from call site r
StartDismiss(r) ==
    /\ pc' = "dismiss"
    /\ ret' = r
    /\ round' = 0
    /\ dismissed' = FALSE
    /\ count' = 0
    /\ i' = 1
    /\ probes' = 0

---------------------------------------------------------------------------
(* Opening the browser and the primary session, lines 212-221 *)

LaunchBrowser ==
    /\ pc = "launch"
    /\ \/ /\ browser' = "open"
          /\ pc' = "new_context"
          /\ UNCHANGED <<outcome, raisedAt>>
       \/ /\ Raise("launch")
          /\ UNCHANGED browser
    /\ UNCHANGED <<runVars, ctxs, browser_closes, i, ovVars, envVars, histVars, trcVars,
                   obsVars, outerVars>>

NewSession(at, c, next) ==
    /\ pc = at
    /\ \/ /\ ctxs' = [ctxs EXCEPT ![c] = "open"]
          /\ pc' = next
          /\ UNCHANGED <<outcome, raisedAt>>
       \/ /\ Raise(at)
          /\ UNCHANGED ctxs
    /\ UNCHANGED <<runVars, browser, browser_closes, i, ovVars, envVars, histVars, trcVars,
                   obsVars, outerVars>>

NewPageIn(at, next) ==
    /\ pc = at
    /\ \/ /\ pc' = next
          /\ UNCHANGED <<outcome, raisedAt>>
       \/ Raise(at)
    /\ UNCHANGED <<runVars, resVars, i, ovVars, envVars, histVars, trcVars,
                   obsVars, outerVars>>

\* ctx = await browser.new_context(...)
NewContext == NewSession("new_context", "ctx", "new_page")

\* page = await ctx.new_page()
NewPage == NewPageIn("new_page", "goto_home")

---------------------------------------------------------------------------
(* 1. Load homepage, lines 225-227 *)

GotoHome ==
    /\ pc = "goto_home"
    /\ \/ /\ location' = "home"
          /\ StartDismiss("home")
          /\ UNCHANGED fatal
       \/ /\ Fatal
          /\ UNCHANGED <<location, i, ovVars>>
    /\ UNCHANGED <<outcome, raisedAt, runVars, resVars, overlaysLeft, cartStore,
                   text_left, probed, screenshot, halted, sessions_run, trcVars,
                   obsVars, outerVars>>

---------------------------------------------------------------------------
(* _dismiss_overlays, lines 105-123 *)

\* the name under which a probe of the call made from call site r is recorded
DismissSite(r) ==
    CASE r = "home"    -> "dismiss_home"
      [] r = "product" -> "dismiss_product"
      [] r = "cart"    -> "dismiss_cart"
      [] OTHER         -> "dismiss_checkout"

DismissOutcomes == { "NotVisible", "Raised", "Clicked", "ClickedWaitRaised" }

\* one pass of the body of "for sel in CLOSE_OVERLAY_SELECTORS"
DismissProbe ==
    /\ pc = "dismiss"
    /\ i <= Len(CLOSE_OVERLAY_SELECTORS)
    /\ \E o \in DismissOutcomes :
        /\ o \in { "Clicked", "ClickedWaitRaised" } => overlaysLeft > 0
        /\ probes' = IF tracing THEN probes + 1 ELSE probes
        /\ last' = IF tracing THEN o ELSE last
        /\ IF o \in { "Clicked", "ClickedWaitRaised" }
           THEN /\ count' = count + 1
                /\ dismissed' = TRUE
                /\ overlaysLeft' = overlaysLeft - 1
           ELSE UNCHANGED <<count, dismissed, overlaysLeft>>
        /\ IF o = "Clicked" \/ i = Len(CLOSE_OVERLAY_SELECTORS)
           THEN /\ pc' = "dismiss_check"
                /\ i' = 0
           ELSE /\ pc' = "dismiss"
                /\ i' = i + 1
    /\ probed' = probed \cup { DismissSite(ret) }
    /\ UNCHANGED <<outcome, raisedAt, runVars, resVars, round, ret, cartStore,
                   text_left, location, screenshot, fatal, halted, sessions_run,
                   tracing, log, obsVars, outerVars>>

\* DismissRoundEnd with the loop going on after a pass that dismissed nothing
DismissRoundEnd_NoBreak ==
    /\ pc = "dismiss_check"
    /\ round + 1 < OverlayRounds
    /\ round' = round + 1
    /\ dismissed' = FALSE
    /\ i' = 1
    /\ pc' = "dismiss"
    /\ UNCHANGED <<outcome, raisedAt, runVars, resVars, count, ret, probes,
                   envVars, histVars, trcVars, obsVars, outerVars>>

\* "if not dismissed: break" fails and range(5) has a next round
DismissRoundEnd ==
    /\ pc = "dismiss_check"
    /\ dismissed
    /\ round + 1 < OverlayRounds
    /\ round' = round + 1
    /\ dismissed' = FALSE
    /\ i' = 1
    /\ pc' = "dismiss"
    /\ UNCHANGED <<outcome, raisedAt, runVars, resVars, count, ret, probes,
                   envVars, histVars, trcVars, obsVars, outerVars>>

\* Incremented counting a transition twice
Incremented_Twice(depth) == depth + 2

\* click_depth += 1
Incremented(depth) == depth + 1

\* "return count", and the caller's statements up to its next await
\* the depth left uncommitted
Committed_Nothing(d, depth) == d

\* defaults["click_depth_to_checkout"] = click_depth
Committed(d, depth) == [d EXCEPT !.click_depth_to_checkout = depth]

\* the product page probed for quick buy whatever the flag holds
AfterProductDismiss_AlwaysProbes(flag) == "quick_buy_pdp"

\* if not defaults["has_quick_buy"]: the probe of the product page;
\* otherwise step 6
AfterProductDismiss(flag) ==
    IF flag = 0 THEN "quick_buy_pdp" ELSE "add_to_cart"

DismissReturn ==
    /\ pc = "dismiss_check"
    /\ ~dismissed \/ round + 1 >= OverlayRounds
    /\ round' = 0
    /\ dismissed' = FALSE
    /\ count' = 0
    /\ ret' = "none"
    /\ CASE ret = "home" ->
              /\ defaults' = [defaults EXCEPT !.popup_count = @ + count]
              /\ pc' = "content"
              /\ i' = 0
              /\ UNCHANGED click_depth
         [] ret = "product" ->
              /\ defaults' = [defaults EXCEPT !.popup_count = @ + count]
              /\ click_depth' = Incremented(click_depth)
              /\ pc' = AfterProductDismiss(defaults.has_quick_buy)
              /\ i' = 1
         [] ret = "cart" ->
              /\ defaults' = [defaults EXCEPT !.popup_count = @ + count]
              /\ click_depth' = Incremented(click_depth)
              /\ pc' = "go_to_checkout"
              /\ i' = 1
         [] OTHER ->
              /\ defaults' = Committed([defaults EXCEPT !.popup_count = @ + count],
                                       Incremented(click_depth))
              /\ click_depth' = Incremented(click_depth)
              /\ pc' = "guest"
              /\ i' = 1
    /\ log' = << >>
    /\ UNCHANGED <<outcome, raisedAt, product_url, result, resVars, probes,
                   envVars, histVars, tracing, last, obsVars, outerVars>>

---------------------------------------------------------------------------
(* 1-4. Landing page: content, broken links, search, quick buy *)

\* defaults["page_html"] = await page.content()
Content ==
    /\ pc = "content"
    /\ \/ /\ defaults' = [defaults EXCEPT !.page_html = "html"]
          /\ pc' = "broken_links"
          /\ UNCHANGED fatal
       \/ /\ Fatal
          /\ UNCHANGED defaults
    /\ UNCHANGED <<outcome, raisedAt, click_depth, product_url, result, resVars,
                   i, ovVars, envVars, probed, screenshot, halted, sessions_run,
                   trcVars, obsVars, outerVars>>

\* defaults["broken_link_count"] = await _count_broken_links(page, url)
\* (when the history is recorded, the regions are those of nav_in)
BrokenLinks ==
    /\ pc = "broken_links"
    /\ \E nav \in (IF tracing THEN { nav_in } ELSE NavFixtures) :
        /\ defaults' = [defaults EXCEPT
                          !.broken_link_count = _count_broken_links(nav, url)]
        /\ requests' = IF tracing THEN RequestsOf(nav, url) ELSE requests
    /\ pc' = "search"
    /\ i' = 1
    /\ UNCHANGED <<outcome, raisedAt, click_depth, product_url, result, resVars,
                   ovVars, envVars, histVars, trcVars, obsVars, nav_in,
                   page_in, driverVars>>

SearchOutcomes ==
    { "NotVisible", "Raised", "TypeRaised", "Suggest", "NoSuggest",
      "SuggestFillRaised", "NoSuggestFillRaised" }

\* one pass of the body of "for sel in SEARCH_INPUT_SELECTORS", lines 233-250
\* ("TypeRaised": inp.type or the wait of line 238 raised; the candidates are
\* taken to match one and the same input, which a later fill("") clears)
SearchProbe ==
    /\ pc = "search"
    /\ i <= Len(SEARCH_INPUT_SELECTORS)
    /\ \E o \in SearchOutcomes :
        /\ defaults' = IF o \in { "Suggest", "SuggestFillRaised" }
                       THEN [defaults EXCEPT !.has_search_autosuggest = 1]
                       ELSE defaults
        /\ text_left' = IF o \in { "TypeRaised", "SuggestFillRaised",
                                   "NoSuggestFillRaised" }
                        THEN TRUE
                        ELSE IF o \in { "Suggest", "NoSuggest" }
                        THEN FALSE ELSE text_left
        /\ IF o \in { "Suggest", "NoSuggest" } \/ i = Len(SEARCH_INPUT_SELECTORS)
           THEN /\ pc' = "quick_buy"
                /\ i' = 1
           ELSE /\ pc' = "search"
                /\ i' = i + 1
        /\ last' = IF tracing THEN o ELSE last
        /\ shown' = IF o \in { "NotVisible", "Raised" }
                    THEN shown ELSE shown \cup { "search_input" }
    /\ probed' = probed \cup { "search" }
    /\ UNCHANGED <<outcome, raisedAt, click_depth, product_url, result, resVars,
                   ovVars, overlaysLeft, cartStore, location, screenshot, fatal,
                   halted, sessions_run, tracing, log, measured, outerVars>>

VisibilityOutcomes == { "NotVisible", "Raised", "Visible" }

\* VisibilityProbe setting the flag also when the candidate is not visible
VisibilityProbe_FlagsOnMiss(at, next, nextI) ==
    /\ pc = at
    /\ i <= Len(SelectorsAt(at))
    /\ \E o \in VisibilityOutcomes :
        /\ defaults' = IF o = "Raised" THEN defaults
                       ELSE IF at = "guest"
                            THEN [defaults EXCEPT !.has_guest_checkout = 1]
                            ELSE [defaults EXCEPT !.has_quick_buy = 1]
        /\ IF o = "Visible" \/ i = Len(SelectorsAt(at))
           THEN /\ pc' = next
                /\ i' = nextI
           ELSE /\ pc' = at
                /\ i' = i + 1
        /\ last' = IF tracing THEN o ELSE last
        /\ shown' = IF o = "Visible" /\ at = "guest"
                    THEN shown \cup { "guest_checkout" } ELSE shown
    /\ probed' = probed \cup { at }
    /\ UNCHANGED <<outcome, raisedAt, click_depth, product_url, result, resVars,
                   ovVars, envVars, screenshot, fatal, halted, sessions_run,
                   tracing, log, measured, outerVars>>

\* one pass of a loop "if await page.locator(sel).first.is_visible(...):
\* defaults[field] = 1; break" run at position at, continuing at next
VisibilityProbe(at, next, nextI) ==
    /\ pc = at
    /\ i <= Len(SelectorsAt(at))
    /\ \E o \in VisibilityOutcomes :
        /\ defaults' = IF o # "Visible" THEN defaults
                       ELSE IF at = "guest"
                            THEN [defaults EXCEPT !.has_guest_checkout = 1]
                            ELSE [defaults EXCEPT !.has_quick_buy = 1]
        /\ IF o = "Visible" \/ i = Len(SelectorsAt(at))
           THEN /\ pc' = next
                /\ i' = nextI
           ELSE /\ pc' = at
                /\ i' = i + 1
        /\ last' = IF tracing THEN o ELSE last
        /\ shown' = IF o = "Visible" /\ at = "guest"
                    THEN shown \cup { "guest_checkout" } ELSE shown
    /\ probed' = probed \cup { at }
    /\ UNCHANGED <<outcome, raisedAt, click_depth, product_url, result, resVars,
                   ovVars, envVars, screenshot, fatal, halted, sessions_run,
                   tracing, log, measured, outerVars>>

\* 4. Quick buy, lines 253-259
QuickBuy == VisibilityProbe("quick_buy", "find_product", 0)

---------------------------------------------------------------------------
(* 5. Navigate to a product page, lines 262-280 *)

\* product_url = await _find_product_url(page, url); click_depth = 1;
\* if product_url and product_url != url
\* (when the history is recorded, the page is page_in, and the enumeration
\* of line 134 raises exactly when page_in.raises)
FindProduct ==
    /\ pc = "find_product"
    /\ \/ /\ \E page \in (IF tracing THEN { p \in { page_in } : ~p.raises }
                                     ELSE PageFixtures) :
               LET u == _find_product_url(page, url) IN
               /\ product_url' = u
               /\ pc' = IF u # None /\ u # url THEN "goto_product"
                                              ELSE "screenshot_goto"
               /\ halted' = IF u # None /\ u # url THEN halted
                                                  ELSE "find_product"
          /\ click_depth' = 1
          /\ UNCHANGED fatal
       \/ /\ tracing => page_in.raises
          /\ Fatal
          /\ UNCHANGED <<product_url, click_depth, halted>>
    /\ UNCHANGED <<outcome, raisedAt, defaults, result, resVars, i, ovVars,
                   envVars, probed, screenshot, sessions_run, trcVars,
                   obsVars, outerVars>>

\* await page.goto(product_url, ...), then _dismiss_overlays(page)
GotoProduct ==
    /\ pc = "goto_product"
    /\ \/ /\ location' = "product"
          /\ text_left' = FALSE
          /\ StartDismiss("product")
          /\ UNCHANGED halted
       \/ /\ TraversalFailed
          /\ UNCHANGED <<location, text_left, i, ovVars>>
    /\ UNCHANGED <<outcome, raisedAt, runVars, resVars, overlaysLeft, cartStore,
                   probed, screenshot, fatal, sessions_run, trcVars,
                   obsVars, outerVars>>

\* Quick buy on PDP, lines 273-280
QuickBuyPdp == VisibilityProbe("quick_buy_pdp", "add_to_cart", 1)

---------------------------------------------------------------------------
(* _safe_click, lines 92-102, and what its callers do with the result *)

ClickOutcomes == { "WaitRaised", "ClickRaised", "Clicked" }

\* AfterSafeClick with the cart step taken whatever add-to-cart returned
AfterSafeClick_IgnoresAdded(r) ==
    /\ CASE pc = "add_to_cart" ->
              /\ result' = [result EXCEPT !.added = IF r THEN "True" ELSE "False"]
              /\ pc' = "added_wait"
              /\ IF r THEN cartStore' \in { "jar_ctx", "server" }
                      ELSE UNCHANGED cartStore
         [] pc = "go_to_cart" ->
              /\ result' = [result EXCEPT !.cart_reached = IF r THEN "True" ELSE "False"]
              /\ pc' = IF r THEN "cart_settle" ELSE "screenshot_goto"
              /\ UNCHANGED cartStore
         [] OTHER ->
              /\ result' = [result EXCEPT !.checkout_reached = IF r THEN "True" ELSE "False"]
              /\ pc' = IF r THEN "checkout_settle" ELSE "screenshot_goto"
              /\ UNCHANGED cartStore
    /\ halted' = IF r THEN halted ELSE pc
    /\ i' = 0

\* the caller's statements after _safe_click returned r at position pc
AfterSafeClick(r) ==
    /\ CASE pc = "add_to_cart" ->
              /\ result' = [result EXCEPT !.added = IF r THEN "True" ELSE "False"]
              /\ pc' = IF r THEN "added_wait" ELSE "screenshot_goto"
              /\ IF r THEN cartStore' \in { "jar_ctx", "server" }
                      ELSE UNCHANGED cartStore
         [] pc = "go_to_cart" ->
              /\ result' = [result EXCEPT !.cart_reached = IF r THEN "True" ELSE "False"]
              /\ pc' = IF r THEN "cart_settle" ELSE "screenshot_goto"
              /\ UNCHANGED cartStore
         [] OTHER ->
              /\ result' = [result EXCEPT !.checkout_reached = IF r THEN "True" ELSE "False"]
              /\ pc' = IF r THEN "checkout_settle" ELSE "screenshot_goto"
              /\ UNCHANGED cartStore
    /\ halted' = IF r THEN halted ELSE pc
    /\ i' = 0

\* SafeClickProbe without the "return True": the loop goes on after a click
SafeClickProbe_NoReturn ==
    /\ pc \in ClickPcs
    /\ i <= Len(SelectorsAt(pc))
    /\ \E o \in ClickOutcomes :
        /\ log' = IF tracing THEN Append(log, o) ELSE log
        /\ last' = IF tracing THEN o ELSE last
        /\ i' = i + 1
        /\ UNCHANGED <<pc, result, cartStore, halted>>
    /\ probed' = probed \cup { pc }
    /\ UNCHANGED <<outcome, raisedAt, defaults, click_depth, product_url, resVars,
                   ovVars, overlaysLeft, text_left, location, screenshot, fatal,
                   sessions_run, tracing, obsVars, outerVars>>

\* SafeClickProbe without the "except Exception": a failed click propagates
SafeClickProbe_Propagates ==
    /\ pc \in ClickPcs
    /\ i <= Len(SelectorsAt(pc))
    /\ \E o \in ClickOutcomes :
        /\ log' = IF tracing THEN Append(log, o) ELSE log
        /\ last' = IF tracing THEN o ELSE last
        /\ CASE o = "Clicked" ->
                  /\ AfterSafeClick(TRUE)
                  /\ UNCHANGED <<outcome, raisedAt>>
             [] o = "ClickRaised" ->
                  /\ Raise(pc)
                  /\ UNCHANGED <<i, result, cartStore, halted>>
             [] OTHER ->
                  /\ i' = i + 1
                  /\ UNCHANGED <<pc, result, cartStore, halted, outcome, raisedAt>>
    /\ probed' = probed \cup { pc }
    /\ UNCHANGED <<defaults, click_depth, product_url, resVars,
                   ovVars, overlaysLeft, text_left, location, screenshot, fatal,
                   sessions_run, tracing, obsVars, outerVars>>

\* one pass of the body of "for sel in selectors"
SafeClickProbe ==
    /\ pc \in ClickPcs
    /\ i <= Len(SelectorsAt(pc))
    /\ \E o \in ClickOutcomes :
        /\ log' = IF tracing THEN Append(log, o) ELSE log
        /\ last' = IF tracing THEN o ELSE last
        /\ IF o = "Clicked"
           THEN AfterSafeClick(TRUE)
           ELSE /\ i' = i + 1
                /\ UNCHANGED <<pc, result, cartStore, halted>>
    /\ probed' = probed \cup { pc }
    /\ UNCHANGED <<outcome, raisedAt, defaults, click_depth, product_url, resVars,
                   ovVars, overlaysLeft, text_left, location, screenshot, fatal,
                   sessions_run, tracing, obsVars, outerVars>>

\* SafeClickExhausted starting the cascade again instead of returning
SafeClickExhausted_Restarts ==
    /\ pc \in ClickPcs
    /\ i > Len(SelectorsAt(pc))
    /\ i' = 1
    /\ UNCHANGED <<pc, result, cartStore, halted>>
    /\ UNCHANGED <<outcome, raisedAt, defaults, click_depth, product_url, resVars,
                   ovVars, overlaysLeft, text_left, location, probed, screenshot,
                   fatal, sessions_run, trcVars, obsVars, outerVars>>

\* "return False" after the loop
SafeClickExhausted ==
    /\ pc \in ClickPcs
    /\ i > Len(SelectorsAt(pc))
    /\ AfterSafeClick(FALSE)
    /\ UNCHANGED <<outcome, raisedAt, defaults, click_depth, product_url, resVars,
                   ovVars, overlaysLeft, text_left, location, probed, screenshot,
                   fatal, sessions_run, trcVars, obsVars, outerVars>>

---------------------------------------------------------------------------
(* 6-9. Add to cart, cart, checkout, guest checkout, lines 283-314 *)

\* await page.wait_for_timeout(1_500); click_depth += 1
AddedWait ==
    /\ pc = "added_wait"
    /\ \/ /\ click_depth' = Incremented(click_depth)
          /\ pc' = "go_to_cart"
          /\ i' = 1
          /\ log' = << >>
          /\ UNCHANGED halted
       \/ /\ TraversalFailed
          /\ UNCHANGED <<click_depth, i, log>>
    /\ UNCHANGED <<outcome, raisedAt, defaults, product_url, result, resVars,
                   ovVars, envVars, probed, screenshot, fatal, sessions_run,
                   tracing, last, obsVars, outerVars>>

\* await page.wait_for_load_state("networkidle", ...) at position at
Settle(at, page, site) ==
    /\ pc = at
    /\ \/ /\ location' = page
          /\ StartDismiss(site)
          /\ UNCHANGED halted
       \/ /\ TraversalFailed
          /\ UNCHANGED <<location, i, ovVars>>
    /\ UNCHANGED <<outcome, raisedAt, runVars, resVars, overlaysLeft, cartStore,
                   text_left, probed, screenshot, fatal, sessions_run, trcVars,
                   obsVars, outerVars>>

CartSettle == Settle("cart_settle", "cart", "cart")

CheckoutSettle == Settle("checkout_settle", "checkout", "checkout")

\* 9. Guest checkout, lines 307-314
GuestCheckout == VisibilityProbe("guest", "screenshot_goto", 0)

---------------------------------------------------------------------------
(* 10. Screenshot, lines 320-324 *)

ScreenshotGoto ==
    /\ pc = "screenshot_goto"
    /\ screenshot' = "attempted"
    /\ \/ /\ location' = "home"
          /\ text_left' = FALSE
          /\ pc' = "screenshot"
       \/ /\ pc' = "ctx_close"
          /\ UNCHANGED <<location, text_left>>
    /\ UNCHANGED <<outcome, raisedAt, runVars, resVars, i, ovVars, overlaysLeft,
                   cartStore, probed, fatal, halted, sessions_run, trcVars,
                   obsVars, outerVars>>

Screenshot ==
    /\ pc = "screenshot"
    /\ \/ screenshot' = "taken"
       \/ UNCHANGED screenshot
    /\ pc' = "ctx_close"
    /\ UNCHANGED <<outcome, raisedAt, runVars, resVars, i, ovVars, envVars,
                   probed, fatal, halted, sessions_run, trcVars,
                   obsVars, outerVars>>

---------------------------------------------------------------------------
(* Teardown of the primary session and the two secondary sessions,         *)
(* lines 329-374                                                           *)

\* CloseSession going on to the next session when the close raised
CloseSession_SwallowsFailure(at, c, next) ==
    /\ pc = at
    /\ \/ ctxs' = [ctxs EXCEPT ![c] = "closed"]
       \/ ctxs' = [ctxs EXCEPT ![c] = "close_failed"]
    /\ pc' = next
    /\ UNCHANGED <<outcome, raisedAt>>
    /\ UNCHANGED <<runVars, browser, browser_closes, i, ovVars, envVars,
                   histVars, trcVars, obsVars, outerVars>>

\* finally: await c.close(); a close that raises leaves the function
CloseSession(at, c, next) ==
    /\ pc = at
    /\ \/ /\ ctxs' = [ctxs EXCEPT ![c] = "closed"]
          /\ pc' = next
          /\ UNCHANGED <<outcome, raisedAt>>
       \/ /\ ctxs' = [ctxs EXCEPT ![c] = "close_failed"]
          /\ Raise(at)
    /\ UNCHANGED <<runVars, browser, browser_closes, i, ovVars, envVars,
                   histVars, trcVars, obsVars, outerVars>>

\* finally: await ctx.close()
CtxClose == CloseSession("ctx_close", "ctx", "new_context2")

\* ctx2 = await browser.new_context(...)
NewContext2 == NewSession("new_context2", "ctx2", "new_page2")

\* page2 = await ctx2.new_page()
NewPage2 == NewPageIn("new_page2", "goto_cart_url")

\* await page2.goto(urljoin(url, "/cart"), ...)
GotoCartUrl ==
    /\ pc = "goto_cart_url"
    /\ sessions_run' = sessions_run \cup { "cart" }
    /\ \/ pc' = "inner_text"
       \/ pc' = "ctx2_close"
    /\ UNCHANGED <<outcome, raisedAt, runVars, resVars, i, ovVars, envVars,
                   probed, screenshot, fatal, halted, trcVars,
                   obsVars, outerVars>>

\* the bodies the site serves at /cart to the fresh session of ctx2: its
\* cookie jar is empty, so it sees a cart only if the site keeps it elsewhere
BodiesServed == IF cartStore = "server" THEN FilledCartBodies ELSE EmptyCartBodies

\* body = (await page2.inner_text("body")).lower(); the keyword test
InnerText ==
    /\ pc = "inner_text"
    /\ \/ \E body \in BodiesServed :
            defaults' = IF CartPersistenceOf(body) = 1
                        THEN [defaults EXCEPT !.cart_persistence = 1]
                        ELSE defaults
       \/ UNCHANGED defaults
    /\ pc' = "ctx2_close"
    /\ UNCHANGED <<outcome, raisedAt, click_depth, product_url, result, resVars,
                   i, ovVars, envVars, histVars, trcVars, obsVars, outerVars>>

\* finally: await ctx2.close()
Ctx2Close == CloseSession("ctx2_close", "ctx2", "new_context3")

\* ctx3 = await browser.new_context(viewport=VIEWPORT_MOBILE, ...)
NewContext3 == NewSession("new_context3", "ctx3", "new_page3")

\* page3 = await ctx3.new_page()
NewPage3 == NewPageIn("new_page3", "goto_mobile")

\* await page3.goto(url, ...)
GotoMobile ==
    /\ pc = "goto_mobile"
    /\ sessions_run' = sessions_run \cup { "mobile" }
    /\ \/ pc' = "evaluate"
       \/ pc' = "ctx3_close"
    /\ UNCHANGED <<outcome, raisedAt, runVars, resVars, i, ovVars, envVars,
                   probed, screenshot, fatal, halted, trcVars,
                   obsVars, outerVars>>

\* scroll_width = await page3.evaluate(...); the comparison of line 367
Evaluate ==
    /\ pc = "evaluate"
    /\ \/ \E scroll_width \in ScrollWidths :
            /\ defaults' = [defaults EXCEPT
                              !.is_mobile_responsive = MobileResponsiveOf(scroll_width)]
            /\ measured' = scroll_width
       \/ UNCHANGED <<defaults, measured>>
    /\ pc' = "ctx3_close"
    /\ UNCHANGED <<outcome, raisedAt, click_depth, product_url, result, resVars,
                   i, ovVars, envVars, histVars, trcVars, shown, outerVars>>

\* finally: await ctx3.close()
Ctx3Close == CloseSession("ctx3_close", "ctx3", "browser_close")

\* await browser.close(), then "return defaults"
BrowserClose ==
    /\ pc = "browser_close"
    /\ browser_closes' = browser_closes + 1
    /\ \/ /\ browser' = "closed"
          /\ pc' = "done"
          /\ outcome' = "returned"
          /\ UNCHANGED raisedAt
       \/ /\ browser' = "close_failed"
          /\ Raise("browser_close")
    /\ UNCHANGED <<runVars, ctxs, i, ovVars, envVars, histVars, trcVars,
                   obsVars, outerVars>>

---------------------------------------------------------------------------
(* The run of get_behavioral_metrics for one URL *)

Next ==
    \/ LaunchBrowser
    \/ NewContext
    \/ NewPage
    \/ GotoHome
    \/ DismissProbe
    \/ DismissRoundEnd
    \/ DismissReturn
    \/ Content
    \/ BrokenLinks
    \/ SearchProbe
    \/ QuickBuy
    \/ FindProduct
    \/ GotoProduct
    \/ QuickBuyPdp
    \/ SafeClickProbe
    \/ SafeClickExhausted
    \/ AddedWait
    \/ CartSettle
    \/ CheckoutSettle
    \/ GuestCheckout
    \/ ScreenshotGoto
    \/ Screenshot
    \/ CtxClose
    \/ NewContext2
    \/ NewPage2
    \/ GotoCartUrl
    \/ InnerText
    \/ Ctx2Close
    \/ NewContext3
    \/ NewPage3
    \/ GotoMobile
    \/ Evaluate
    \/ Ctx3Close
    \/ BrowserClose

Spec == Init /\ [][Next]_vars

\* the run when every awaited operation completes or times out: the step
\* that follows an await is eventually taken
SpecLive == Spec /\ WF_vars(Next)

---------------------------------------------------------------------------
(* The helpers on their own: one call of _dismiss_overlays or _safe_click, *)
(* entered from a state the run reaches there, with the history of its     *)
(* probes recorded.                                                        *)

BeforeTraversal == { "dismiss_home", "search", "quick_buy" }

OnProductPage == BeforeTraversal \cup { "dismiss_product", "quick_buy_pdp" }

InitHelpers ==
    /\ tracing = TRUE
    /\ outcome = "running"
    /\ raisedAt = "none"
    /\ browser = "open"
    /\ ctxs = [c \in Ctxs |-> IF c = "ctx" THEN "open" ELSE "none"]
    /\ browser_closes = 0
    /\ round = 0
    /\ dismissed = FALSE
    /\ count = 0
    /\ i = 1
    /\ overlaysLeft = MaxOverlays
    /\ text_left = FALSE
    /\ screenshot = "none"
    /\ fatal = FALSE
    /\ halted = "none"
    /\ sessions_run = {}
    /\ probes = 0
    /\ log = << >>
    /\ last = "none"
    /\ shown = {}
    /\ measured = -1
    /\ OuterIdle
    /\ \/ /\ pc = "dismiss"
          /\ ret = "home"
          /\ location = "home"
          /\ defaults = Defaults
          /\ click_depth = 0
          /\ product_url = None
          /\ result = NoResult
          /\ cartStore = "none"
          /\ probed = {}
       \/ /\ pc = "add_to_cart"
          /\ ret = "none"
          /\ location = "product"
          /\ defaults = [Defaults EXCEPT !.page_html = "html"]
          /\ click_depth = 2
          /\ product_url = "https://shop.example/product/42"
          /\ result = NoResult
          /\ cartStore = "none"
          /\ probed = OnProductPage
       \/ /\ pc = "go_to_cart"
          /\ ret = "none"
          /\ location = "product"
          /\ defaults = [Defaults EXCEPT !.page_html = "html"]
          /\ click_depth = 3
          /\ product_url = "https://shop.example/product/42"
          /\ result = [NoResult EXCEPT !.added = "True"]
          /\ cartStore = "jar_ctx"
          /\ probed = OnProductPage \cup { "add_to_cart" }
       \/ /\ pc = "go_to_checkout"
          /\ ret = "none"
          /\ location = "cart"
          /\ defaults = [Defaults EXCEPT !.page_html = "html"]
          /\ click_depth = 4
          /\ product_url = "https://shop.example/product/42"
          /\ result = [NoResult EXCEPT !.added = "True", !.cart_reached = "True"]
          /\ cartStore = "jar_ctx"
          /\ probed = OnProductPage \cup { "add_to_cart", "go_to_cart", "dismiss_cart" }

NextHelpers ==
    \/ DismissProbe
    \/ DismissRoundEnd
    \/ DismissReturn
    \/ SafeClickProbe
    \/ SafeClickExhausted

SpecHelpers == InitHelpers /\ [][NextHelpers]_vars

---------------------------------------------------------------------------
(* _dismiss_overlays on a site that keeps presenting overlays: the call    *)
(* made on the landing page, line 226.                                     *)

\* overlays such a site presents
ManyOverlays == 21

InitOverlays ==
    /\ tracing = FALSE
    /\ pc = "dismiss"
    /\ ret = "home"
    /\ location = "home"
    /\ outcome = "running"
    /\ raisedAt = "none"
    /\ defaults = Defaults
    /\ click_depth = 0
    /\ product_url = None
    /\ result = NoResult
    /\ browser = "open"
    /\ ctxs = [c \in Ctxs |-> IF c = "ctx" THEN "open" ELSE "none"]
    /\ browser_closes = 0
    /\ i = 1
    /\ round = 0
    /\ dismissed = FALSE
    /\ count = 0
    /\ overlaysLeft = ManyOverlays
    /\ cartStore = "none"
    /\ text_left = FALSE
    /\ probed = {}
    /\ screenshot = "none"
    /\ fatal = FALSE
    /\ halted = "none"
    /\ sessions_run = {}
    /\ probes = 0
    /\ log = << >>
    /\ last = "none"
    /\ shown = {}
    /\ measured = -1
    /\ OuterIdle

NextOverlays ==
    \/ DismissProbe
    \/ DismissRoundEnd
    \/ DismissReturn

SpecOverlays == InitOverlays /\ [][NextOverlays]_vars

---------------------------------------------------------------------------
(* The link sampler on its own: _count_broken_links run, at line 230, on  *)
(* navigation regions drawn from a bounded set.                            *)

\* anchors a navigation region is made of
MaxAnchors == 3

AnchorKinds ==
    { Anchor("/about", 404), Anchor("https://shop.example/about", 404),
      Anchor("https://other.example/p/1", 404), Anchor("/", 200),
      Anchor("/about", 500), Anchor("/product/42", 0), Anchor("#top", 404),
      Anchor("mailto:a@b", 404), Anchor("tel:123", 404), Anchor("", 404),
      Vanished }

\* a menu of n distinct internal links, all of them dead
PagedNav(n) ==
    [raises |-> FALSE, anchors |-> [k \in 1..n |-> Anchor(PagedHref[k], 404)]]

NavInputs ==
    NavFixtures
      \cup { [raises |-> FALSE, anchors |-> a] :
               a \in UNION { [1..n -> AnchorKinds] : n \in 1..MaxAnchors } }
      \cup { PagedNav(n) : n \in (LinkSampleCap - 1)..Len(PagedHref) }

InitLinks ==
    /\ tracing = TRUE
    /\ pc = "broken_links"
    /\ outcome = "running"
    /\ raisedAt = "none"
    /\ defaults = [Defaults EXCEPT !.page_html = "html"]
    /\ click_depth = 0
    /\ product_url = None
    /\ result = NoResult
    /\ browser = "open"
    /\ ctxs = [c \in Ctxs |-> IF c = "ctx" THEN "open" ELSE "none"]
    /\ browser_closes = 0
    /\ i = 0
    /\ round = 0
    /\ dismissed = FALSE
    /\ count = 0
    /\ ret = "none"
    /\ overlaysLeft = MaxOverlays
    /\ cartStore = "none"
    /\ text_left = FALSE
    /\ location = "home"
    /\ probed = { "dismiss_home" }
    /\ screenshot = "none"
    /\ fatal = FALSE
    /\ halted = "none"
    /\ sessions_run = {}
    /\ probes = 0
    /\ log = << >>
    /\ last = "none"
    /\ shown = {}
    /\ measured = -1
    /\ nav_in \in NavInputs
    /\ requests = << >>
    /\ page_in = NoPage
    /\ urls = << >>
    /\ cur = 0
    /\ dpc = "idle"
    /\ row = NoRow
    /\ page_html = ""
    /\ csv = NoFile
    /\ shot_file = 0
    /\ clock = 0
    /\ scored = 0
    /\ saved = << >>

NextLinks == BrokenLinks

SpecLinks == InitLinks /\ [][NextLinks]_vars

---------------------------------------------------------------------------
(* Product discovery on its own: _find_product_url run, at line 262, on    *)
(* landing pages drawn from a bounded set.                                 *)

\* anchors that follow the filler anchors of a page
MaxTail == 2

\* an anchor no strategy accepts
Filler == Anchor("mailto:a@b", 200)

DiscoveryKinds ==
    { Anchor("/product/42", 200), Anchor("https://other.example/p/1", 200),
      Anchor("/about", 200), Anchor("https://shop.example/about", 200),
      Anchor("/sale#x", 200), Anchor("", 200), Vanished }

\* numbers of filler anchors: around the bounds of anchors[:60], anchors[5:30]
FillerCounts ==
    { 0, WindowSkip - 1, WindowSkip, WindowEnd - 1, WindowEnd,
      PatternScanCap - 1, PatternScanCap }

GridInputs ==
    { NoGrid,
      << "", "", "", "", "" >>,
      << "RAISE", "", "/about", "/product/42", "RAISE" >>,
      << "/sale#x", "RAISE", "", "", "/about" >> }

PageInputs ==
    { [raises |-> r, anchors |-> [k \in 1..n |-> Filler] \o t, grid |-> g] :
        r \in BOOLEAN, n \in FillerCounts,
        t \in UNION { [1..m -> DiscoveryKinds] : m \in 0..MaxTail },
        g \in GridInputs }

InitDiscovery ==
    /\ tracing = TRUE
    /\ pc = "find_product"
    /\ outcome = "running"
    /\ raisedAt = "none"
    /\ defaults = [Defaults EXCEPT !.page_html = "html"]
    /\ click_depth = 0
    /\ product_url = None
    /\ result = NoResult
    /\ browser = "open"
    /\ ctxs = [c \in Ctxs |-> IF c = "ctx" THEN "open" ELSE "none"]
    /\ browser_closes = 0
    /\ i = 0
    /\ round = 0
    /\ dismissed = FALSE
    /\ count = 0
    /\ ret = "none"
    /\ overlaysLeft = MaxOverlays
    /\ cartStore = "none"
    /\ text_left = FALSE
    /\ location = "home"
    /\ probed = BeforeTraversal
    /\ screenshot = "none"
    /\ fatal = FALSE
    /\ halted = "none"
    /\ sessions_run = {}
    /\ probes = 0
    /\ log = << >>
    /\ last = "none"
    /\ shown = {}
    /\ measured = -1
    /\ nav_in = NoNav
    /\ requests = << >>
    /\ page_in \in PageInputs
    /\ urls = << >>
    /\ cur = 0
    /\ dpc = "idle"
    /\ row = NoRow
    /\ page_html = ""
    /\ csv = NoFile
    /\ shot_file = 0
    /\ clock = 0
    /\ scored = 0
    /\ saved = << >>

NextDiscovery == FindProduct

SpecDiscovery == InitDiscovery /\ [][NextDiscovery]_vars

---------------------------------------------------------------------------
(* main.py: run_pipeline, collect_one and save_row.  A call of             *)
(* get_behavioral_metrics is one step here: it returns a record or raises, *)
(* and it has or has not written the screenshot file.                      *)

\* lines of the input
MaxUrls == 3

UrlLines == { "https://a.example/", " https://b.example/ ", "", " # later" }

\* url.strip()
Strip(line) ==
    CASE line = " https://b.example/ " -> "https://b.example/"
      [] line = " # later"             -> "# later"
      [] OTHER                         -> line

\* url.startswith("#")
StartsWithHash(u) == u = "# later"

COLUMNS ==
    << "url", "collected_at",
       "popup_count", "has_guest_checkout", "click_depth_to_checkout",
       "cart_persistence",
       "has_search_autosuggest", "has_quick_buy", "broken_link_count",
       "is_mobile_responsive",
       "lcp_ms", "cls", "tbt_ms", "ttfb_ms", "performance_score",
       "has_phone", "has_email", "has_address",
       "has_return_policy", "has_privacy_policy", "has_tos",
       "has_social_links", "has_payment_badges", "trust_score",
       "visual_clutter_score", "visual_modern_score", "visual_image_quality",
       "visual_overall",
       "label" >>

\* the columns whose values are strings; the others hold numbers
TextColumns == { "url", "collected_at", "label" }

\* datetime.utcnow().isoformat(), for the reading after n earlier ones
IsoFormat(n) == "T" \o ToString(n + 1)

\* dict.update
Update(r, d) ==
    [c \in DOMAIN r \cup DOMAIN d |-> IF c \in DOMAIN d THEN d[c] ELSE r[c]]

\* the dict left after beh.pop(key, "")
Without(d, key) == [c \in DOMAIN d \ { key } |-> d[c]]

\* the cells DictWriter(fieldnames=COLUMNS, extrasaction="ignore") writes
\* for a row: str(value) per column, "" for a missing key
Layout(r) ==
    [k \in 1..Len(COLUMNS) |->
       IF COLUMNS[k] \notin DOMAIN r THEN ""
       ELSE IF COLUMNS[k] \in TextColumns THEN r[COLUMNS[k]]
       ELSE ToString(r[COLUMNS[k]])]

\* save_row with the header written on every call
save_row_AlwaysHeader(file, r) ==
    [exists  |-> TRUE,
     records |-> file.records \o << COLUMNS, Layout(r) >>]

\* save_row(row, output_path) on the file file
save_row(file, r) ==
    LET is_new == ~file.exists \/ file.records = << >>
    IN  [exists  |-> TRUE,
         records |-> (IF is_new THEN Append(file.records, COLUMNS)
                                ELSE file.records) \o << Layout(r) >>]

\* the result of a run of get_behavioral_metrics that reached checkout
ReachedCheckout ==
    [Defaults EXCEPT !.popup_count = 2, !.click_depth_to_checkout = 5,
                     !.has_quick_buy = 1, !.is_mobile_responsive = 1,
                     !.page_html = "html"]

\* runs of get_behavioral_metrics as collect_one sees them: the run raises
\* or returns its record, and has or has not written the screenshot file
\* (a run whose landing page never loaded returns Defaults and takes no
\* screenshot)
BehavioralRuns ==
    { [raises |-> TRUE, shot |-> sh, beh |-> Defaults] : sh \in BOOLEAN }
      \cup { [raises |-> FALSE, shot |-> FALSE, beh |-> Defaults] }
      \cup { [raises |-> FALSE, shot |-> sh, beh |-> ReachedCheckout] :
               sh \in BOOLEAN }

PerformanceDefaults ==
    [lcp_ms |-> -1, cls |-> -1, tbt_ms |-> -1, ttfb_ms |-> -1,
     performance_score |-> -1]

\* get_performance_metrics(url): the API answers for a.example and fails
\* for every other site
get_performance_metrics(u) ==
    IF u = "https://a.example/"
    THEN [lcp_ms |-> 2400, cls |-> 0, tbt_ms |-> 150, ttfb_ms |-> 300,
          performance_score |-> 87]
    ELSE PerformanceDefaults

TrustDefaults ==
    [has_phone |-> 0, has_email |-> 0, has_address |-> 0,
     has_return_policy |-> 0, has_privacy_policy |-> 0, has_tos |-> 0,
     has_social_links |-> 0, has_payment_badges |-> 0, trust_score |-> 0]

\* get_trust_signals(html); the page "html" shows a phone number and a
\* privacy policy link
get_trust_signals(html) ==
    IF html = "" THEN TrustDefaults
    ELSE [TrustDefaults EXCEPT !.has_phone = 1, !.has_privacy_policy = 1,
                               !.trust_score = 2]

VisualDefaults ==
    [visual_clutter_score |-> -1, visual_modern_score |-> -1,
     visual_image_quality |-> -1, visual_overall |-> -1]

\* get_visual_scores(): file is the state of SCREENSHOT_PATH, answered says
\* whether the model's reply was obtained and parsed
get_visual_scores(file, answered) ==
    IF file = 0 \/ ~answered THEN VisualDefaults
    ELSE [visual_clutter_score |-> 4, visual_modern_score |-> 7,
          visual_image_quality |-> 6, visual_overall |-> 6]

innerVars ==
    <<pc, outcome, raisedAt, runVars, resVars, i, ovVars, envVars, histVars,
      trcVars, obsVars, samplerVars>>

\* for url in urls: url = url.strip(); blank and comment lines are skipped;
\* otherwise collect_one starts and builds its row (line 70)
LoopLine ==
    /\ dpc = "loop"
    /\ cur <= Len(urls)
    /\ LET u == Strip(urls[cur]) IN
       IF u = "" \/ StartsWithHash(u)
       THEN /\ cur' = cur + 1
            /\ UNCHANGED <<dpc, row, clock>>
       ELSE /\ row' = [c \in { "url", "collected_at", "label" } |->
                         CASE c = "url"          -> u
                           [] c = "collected_at" -> IsoFormat(clock)
                           [] OTHER              -> ""]
            /\ clock' = clock + 1
            /\ dpc' = "behavioral"
            /\ UNCHANGED cur
    /\ scored' = 0
    /\ UNCHANGED <<innerVars, urls, page_html, csv, shot_file, saved>>

\* the loop is exhausted
LoopEnd ==
    /\ dpc = "loop"
    /\ cur > Len(urls)
    /\ dpc' = "complete"
    /\ UNCHANGED <<innerVars, urls, cur, row, page_html, csv, shot_file, clock,
                   scored, saved>>

\* CollectBehavioral with the exception leaving run_pipeline
CollectBehavioral_Aborts ==
    /\ dpc = "behavioral"
    /\ \E run \in BehavioralRuns :
         /\ shot_file' = IF run.shot THEN cur ELSE shot_file
         /\ IF run.raises
            THEN /\ dpc' = "aborted"
                 /\ UNCHANGED <<row, page_html>>
            ELSE /\ page_html' = run.beh.page_html
                 /\ row' = Update(row, Without(run.beh, "page_html"))
                 /\ dpc' = "performance"
    /\ UNCHANGED <<innerVars, urls, cur, csv, clock, scored, saved>>

\* beh = await get_behavioral_metrics(url); page_html = beh.pop(...);
\* row.update(beh).  The run wrote the screenshot file or did not; when it
\* raises, the handler of run_pipeline (line 115) is next.
CollectBehavioral ==
    /\ dpc = "behavioral"
    /\ \E run \in BehavioralRuns :
         /\ shot_file' = IF run.shot THEN cur ELSE shot_file
         /\ IF run.raises
            THEN /\ dpc' = "failed"
                 /\ UNCHANGED <<row, page_html>>
            ELSE /\ page_html' = run.beh.page_html
                 /\ row' = Update(row, Without(run.beh, "page_html"))
                 /\ dpc' = "performance"
    /\ UNCHANGED <<innerVars, urls, cur, csv, clock, scored, saved>>

\* row.update(get_performance_metrics(url))
CollectPerformance ==
    /\ dpc = "performance"
    /\ row' = Update(row, get_performance_metrics(row["url"]))
    /\ dpc' = "trust"
    /\ UNCHANGED <<innerVars, urls, cur, page_html, csv, shot_file, clock,
                   scored, saved>>

\* row.update(get_trust_signals(page_html))
CollectTrust ==
    /\ dpc = "trust"
    /\ row' = Update(row, get_trust_signals(page_html))
    /\ dpc' = "visual"
    /\ UNCHANGED <<innerVars, urls, cur, page_html, csv, shot_file, clock,
                   scored, saved>>

\* row.update(get_visual_scores())
CollectVisual ==
    /\ dpc = "visual"
    /\ \E answered \in BOOLEAN :
         /\ row' = Update(row, get_visual_scores(shot_file, answered))
         /\ scored' = IF answered THEN shot_file ELSE 0
    /\ dpc' = "save"
    /\ UNCHANGED <<innerVars, urls, cur, page_html, csv, shot_file, clock,
                   saved>>

\* a call save_row(r, output), then asyncio.sleep(delay) and the next line
Save(r) ==
    /\ csv' = save_row(csv, r)
    /\ saved' = Append(saved, [line |-> cur, row |-> r, scored |-> scored])
    /\ cur' = cur + 1
    /\ dpc' = "loop"

\* return row; save_row(row, output)
SaveCollected ==
    /\ dpc = "save"
    /\ Save(row)
    /\ UNCHANGED <<innerVars, urls, row, page_html, shot_file, clock, scored>>

\* except Exception: save_row({"url": url, "collected_at": ...}, output)
SaveBlank ==
    /\ dpc = "failed"
    /\ Save([c \in { "url", "collected_at" } |->
               IF c = "url" THEN row["url"] ELSE IsoFormat(clock)])
    /\ clock' = clock + 1
    /\ UNCHANGED <<innerVars, urls, row, page_html, shot_file, scored>>

InitPipeline ==
    /\ RunInit
    /\ nav_in = NoNav
    /\ requests = << >>
    /\ page_in = NoPage
    /\ urls \in UNION { [1..n -> UrlLines] : n \in 1..MaxUrls }
    /\ cur = 1
    /\ dpc = "loop"
    /\ row = NoRow
    /\ page_html = ""
    /\ csv \in { NoFile, [exists |-> TRUE, records |-> << >>] }
    /\ shot_file = 0
    /\ clock = 0
    /\ scored = 0
    /\ saved = << >>

NextPipeline ==
    \/ LoopLine
    \/ LoopEnd
    \/ CollectBehavioral
    \/ CollectPerformance
    \/ CollectTrust
    \/ CollectVisual
    \/ SaveCollected
    \/ SaveBlank

SpecPipeline == InitPipeline /\ [][NextPipeline]_vars

---------------------------------------------------------------------------
(* Properties *)

SignalFields ==
    { "popup_count", "has_guest_checkout", "click_depth_to_checkout",
      "cart_persistence", "has_search_autosuggest", "has_quick_buy",
      "broken_link_count", "is_mobile_responsive" }

InRange(d) ==
    /\ SignalFields \subseteq DOMAIN d
    /\ d.popup_count \in Nat
    /\ d.broken_link_count \in Nat
    /\ d.click_depth_to_checkout = -1 \/ d.click_depth_to_checkout >= 1
    /\ d.has_guest_checkout \in {0, 1}
    /\ d.cart_persistence \in {0, 1}
    /\ d.has_search_autosuggest \in {0, 1}
    /\ d.has_quick_buy \in {0, 1}
    /\ d.is_mobile_responsive \in {0, 1}

\* the steps that acquire or release the browser or a session; every other
\* step is a navigation, a locator or an interaction inside a session
ResourceSteps ==
    { "launch", "new_context", "new_page", "ctx_close",
      "new_context2", "new_page2", "ctx2_close",
      "new_context3", "new_page3", "ctx3_close", "browser_close" }

\* C1: whatever navigation, locator and interaction steps fail inside the
\* three sessions, the run returns (only acquiring or releasing the browser
\* or a session can make it raise) and the record always holds all eight
\* signal fields, each in its range.
C1_FieldsPresentAndInRange ==
    /\ InRange(defaults)
    /\ outcome = "raised" => raisedAt \in ResourceSteps
    /\ outcome = "returned" <=> pc = "done"

\* C1 witness: the landing page, the cart page and the mobile page all failed
\* to load and the run returned the defaults.
C1_TotalFailureReturned ==
    /\ outcome = "returned"
    /\ fatal
    /\ location = "blank"
    /\ sessions_run = { "cart", "mobile" }
    /\ defaults = Defaults

\* the depth counter at each position of the traversal
DepthAt ==
    CASE pc = "goto_product"                                  -> 1
      [] pc \in { "dismiss", "dismiss_check" } /\ ret = "product"  -> 1
      [] pc \in { "quick_buy_pdp", "add_to_cart", "added_wait" }   -> 2
      [] pc \in { "go_to_cart", "cart_settle" }                -> 3
      [] pc \in { "dismiss", "dismiss_check" } /\ ret = "cart"     -> 3
      [] pc \in { "go_to_checkout", "checkout_settle" }        -> 4
      [] pc \in { "dismiss", "dismiss_check" } /\ ret = "checkout" -> 4
      [] pc = "guest"                                          -> 5
      [] OTHER                                                 -> click_depth

\* C2: the depth counter is 1 on the landing page and one more after each
\* successful transition; the result's click_depth_to_checkout is -1 or 5, is 5
\* only when add-to-cart, cart and checkout all succeeded and the checkout
\* page settled, and is -1 whenever a step failed.
C2_DepthCommittedOnlyAtCheckout ==
    /\ click_depth = DepthAt
    /\ click_depth \in 0..5
    /\ defaults.click_depth_to_checkout \in { -1, 5 }
    /\ defaults.click_depth_to_checkout = 5 =>
          /\ click_depth = 5
          /\ result = [added |-> "True", cart_reached |-> "True",
                       checkout_reached |-> "True"]
          /\ "dismiss_checkout" \in probed
          /\ halted = "none"
    /\ halted # "none" \/ fatal => defaults.click_depth_to_checkout = -1

\* C2 witness: a run that reached the checkout returned depth 5.
C2_CheckoutReachedAtDepth5 ==
    /\ outcome = "returned"
    /\ defaults.click_depth_to_checkout = 5

\* the cascades that run after the traversal step h
LaterSteps(h) ==
    CASE h \in { "find_product", "goto_product" } ->
            { "dismiss_product", "quick_buy_pdp", "add_to_cart", "go_to_cart",
              "dismiss_cart", "go_to_checkout", "dismiss_checkout", "guest" }
      [] h \in { "add_to_cart", "added_wait" } ->
            { "go_to_cart", "dismiss_cart", "go_to_checkout",
              "dismiss_checkout", "guest" }
      [] h \in { "go_to_cart", "cart_settle" } ->
            { "dismiss_cart", "go_to_checkout", "dismiss_checkout", "guest" }
      [] h \in { "go_to_checkout", "checkout_settle" } ->
            { "dismiss_checkout", "guest" }
      [] OTHER -> {}

\* C3: once a traversal step has failed, no selector of a later step is ever
\* probed; when the add-to-cart cascade matched nothing, the cart, checkout
\* and guest-checkout selectors are never probed and the result keeps
\* click_depth_to_checkout = -1 and has_guest_checkout = 0.
C3_NoProbeAfterFailedStep ==
    /\ halted # "none" => probed \cap LaterSteps(halted) = {}
    /\ halted = "add_to_cart" =>
          /\ result.added = "False"
          /\ defaults.click_depth_to_checkout = -1
          /\ defaults.has_guest_checkout = 0

\* C3 witness: a run whose add-to-cart cascade probed and matched nothing
\* has returned.
C3_AddToCartMatchedNothing ==
    /\ outcome = "returned"
    /\ halted = "add_to_cart"
    /\ "add_to_cart" \in probed

\* what _safe_click returned to the call site p
ReturnedAt(p) ==
    CASE p \in { "add_to_cart", "added_wait" }      -> result.added
      [] p \in { "go_to_cart", "cart_settle" }      -> result.cart_reached
      [] OTHER                                      -> result.checkout_reached

NoneClicked == \A k \in 1..Len(log) : log[k] # "Clicked"

\* C4: _safe_click probes the candidates in list order, one probe each; no
\* candidate is probed after a click succeeded, so at most one click succeeds;
\* it returns True exactly when the last candidate probed was clicked and
\* every earlier one was probed and skipped, and False exactly when all
\* candidates were probed and none was clicked.
C4_FirstMatchWins ==
    /\ \A k \in 1..(Len(log) - 1) : log[k] # "Clicked"
    /\ pc \in ClickPcs => i = Len(log) + 1 /\ NoneClicked
    /\ pc \in { "added_wait", "cart_settle", "checkout_settle" } =>
          /\ ReturnedAt(pc) = "True"
          /\ log # << >>
          /\ log[Len(log)] = "Clicked"
    /\ halted \in ClickPcs =>
          /\ ReturnedAt(halted) = "False"
          /\ Len(log) = Len(SelectorsAt(halted))
          /\ NoneClicked

\* C4 witness: only the third add-to-cart candidate matched; the first two
\* were probed and skipped and the call returned True.
C4_ThirdCandidateClicked ==
    /\ pc = "added_wait"
    /\ log = << "WaitRaised", "ClickRaised", "Clicked" >>
    /\ result.added = "True"

C5_Step ==
    /\ pc \in ClickPcs /\ log' # log /\ last' \in { "WaitRaised", "ClickRaised" }
          => pc' = pc /\ i' = i + 1
    /\ pc = "dismiss" /\ probes' # probes /\ last' \in { "Raised", "ClickedWaitRaised" }
          => IF i < Len(CLOSE_OVERLAY_SELECTORS)
             THEN pc' = "dismiss" /\ i' = i + 1
             ELSE pc' = "dismiss_check"
    /\ halted' # halted => pc \in ClickPcs /\ i > Len(SelectorsAt(pc))

\* C5: no exception leaves _safe_click or _dismiss_overlays: an exception at a
\* candidate moves the cascade to the next candidate, and _safe_click reports
\* no match only after every candidate of its list was tried.
C5_CascadeNeverRaises ==
    /\ [](outcome = "running")
    /\ [][C5_Step]_vars

\* C5 witness: the click on the second candidate raised and the cascade is at
\* the third.
C5_ExceptionSkippedCandidate ==
    /\ pc \in ClickPcs
    /\ last = "ClickRaised"
    /\ i = 3

\* C6: when the run has ended, by return or by exception, no browsing context
\* that was opened is left open.
C6_EveryOpenedContextClosed ==
    outcome # "running" => \A c \in Ctxs : ctxs[c] # "open"

\* C7: when the run has ended, by return or by exception, the launched
\* browser has been closed by exactly one browser.close(), made after all
\* three sessions were closed.
C7_BrowserClosedOnceAtEnd ==
    /\ outcome # "running" /\ browser # "none" => browser_closes = 1
    /\ browser_closes > 0 => \A c \in Ctxs : ctxs[c] = "closed"
    /\ browser_closes <= 1

\* C8: a run whose primary session ended in the handler of unexpected errors
\* has, when it returns, attempted the landing-page screenshot and run the
\* cart-persistence and the mobile session.
C8_FatalStillScreenshots ==
    fatal /\ outcome = "returned" =>
        /\ screenshot # "none"
        /\ sessions_run = { "cart", "mobile" }

C9_Step ==
    pc = "dismiss_check" /\ ~dismissed => pc' \notin { "dismiss", "dismiss_check" }

\* C9: one call of _dismiss_overlays runs at most 5 rounds and makes at most
\* 5 x |CLOSE_OVERLAY_SELECTORS| probes, and it returns at the first round
\* whose pass over the list dismissed nothing.
C9_OverlayLoopBounded ==
    /\ [](/\ round < OverlayRounds
          /\ i <= Len(CLOSE_OVERLAY_SELECTORS) + 1
          /\ probes <= OverlayRounds * Len(CLOSE_OVERLAY_SELECTORS))
    /\ [][C9_Step]_vars

\* C9 witness: five full passes each dismissed an overlay at the last
\* candidate, and the page still has overlays to present.
C9_CeilingReached ==
    /\ pc = "dismiss_check"
    /\ round = OverlayRounds - 1
    /\ dismissed
    /\ probes = OverlayRounds * Len(CLOSE_OVERLAY_SELECTORS)
    /\ overlaysLeft > 0

\* C10: the cart-persistence check runs in ctx2 after ctx was closed, no
\* add-to-cart cascade runs in ctx2, and for a site that keeps the cart only
\* in the cookie jar of ctx the result has cart_persistence = 0.
C10_FreshSessionSeesNoCart ==
    /\ pc \in { "goto_cart_url", "inner_text" } =>
          ctxs["ctx"] = "closed" /\ ctxs["ctx2"] = "open"
    /\ pc \in ClickPcs => ctxs["ctx"] = "open" /\ ctxs["ctx2"] = "none"
    /\ cartStore = "jar_ctx" => defaults.cart_persistence = 0

---------------------------------------------------------------------------
(* The link sampler *)

\* the anchors the sampler looks at: anchors[:10]
Sampled(nav) ==
    IF nav.raises THEN {} ELSE 1..Min(Len(nav.anchors), LinkSampleCap)

\* the k-th anchor is a same-origin link that no earlier anchor has named
SameOriginLink(nav, k) ==
    LET a == nav.anchors[k] IN
    /\ ~a.raises
    /\ a.href # ""
    /\ ~StartsWithSkipped(a.href)
    /\ netloc(urljoin(url, a.href)) = netloc(url)
    /\ \A j \in 1..(k - 1) :
         nav.anchors[j].raises \/ nav.anchors[j].href # a.href

Range(f) == { f[k] : k \in DOMAIN f }

\* C11: broken_link_count is the number of sampled same-origin links whose
\* check returned 404; no request goes to another origin, and a check that
\* raised or returned another status adds nothing.
C11_CountsSameOrigin404 ==
    pc = "search" =>
      /\ defaults.broken_link_count =
           Cardinality({ k \in Sampled(nav_in) :
                           /\ SameOriginLink(nav_in, k)
                           /\ nav_in.anchors[k].status = 404 })
      /\ \A r \in Range(requests) : netloc(r) = netloc(url)

\* a cross-origin 404 and a same-origin 404 were sampled, and the count is 1
C11_CrossOriginNotCounted ==
    /\ pc = "search"
    /\ ~nav_in.raises
    /\ Len(nav_in.anchors) = 2
    /\ nav_in.anchors[1] = Anchor("https://other.example/p/1", 404)
    /\ nav_in.anchors[2] = Anchor("/about", 404)
    /\ defaults.broken_link_count = 1
    /\ requests = << "https://shop.example/about" >>

---------------------------------------------------------------------------
(* Mobile responsiveness *)

\* C12: is_mobile_responsive is 1 exactly when the mobile session measured a
\* scroll width of at most the viewport width plus 20 (inclusive), and is
\* the default 0 when the load or the measurement failed.
C12_MobileBoundaryInclusive ==
    /\ measured = -1 => defaults.is_mobile_responsive = 0
    /\ measured # -1 =>
         (defaults.is_mobile_responsive = 1
            <=> measured <= ViewportMobileWidth + ScrollTolerance)
    /\ defaults.is_mobile_responsive \in { 0, 1 }

\* a returned run that measured exactly viewport + 20 and reports 1
C12_ExactlyAtBoundary ==
    /\ outcome = "returned"
    /\ "mobile" \in sessions_run
    /\ measured = ViewportMobileWidth + ScrollTolerance
    /\ defaults.is_mobile_responsive = 1

---------------------------------------------------------------------------
(* The driver *)

\* the lines among the first n that name a URL
Accepted(n) ==
    { j \in 1..n : Strip(urls[j]) # "" /\ ~StartsWithHash(Strip(urls[j])) }

\* C13: every line naming a URL gets exactly one appended row carrying the
\* URL and a timestamp, also when its collection failed; the rows are in
\* input order and no failure ends the batch.
C13_OneRowPerUrlInOrder ==
    /\ dpc # "aborted"
    /\ Len(saved) = Cardinality(Accepted(cur - 1))
    /\ csv.records = << >> <=> saved = << >>
    /\ saved # << >> => Len(csv.records) = Len(saved) + 1
    /\ \A k \in 1..Len(saved) :
         /\ saved[k].line \in Accepted(cur - 1)
         /\ k < Len(saved) => saved[k].line < saved[k + 1].line
         /\ csv.records[k + 1][1] = Strip(urls[saved[k].line])
         /\ csv.records[k + 1][2] # ""

\* a batch whose first URL failed and whose second URL was collected
C13_FailedThenCollected ==
    /\ dpc = "complete"
    /\ Len(saved) = 2
    /\ DOMAIN saved[1].row = { "url", "collected_at" }
    /\ "visual_overall" \in DOMAIN saved[2].row
    /\ Len(csv.records) = 3

\* the text of column col in the record written for row r
CellOf(r, col) ==
    IF col \notin DOMAIN r THEN ""
    ELSE IF col \in TextColumns THEN r[col]
    ELSE ToString(r[col])

\* C14: from a missing or empty file, the calls of save_row leave one header
\* record, first, then one data record per call in call order, each laid
\* out in the order of COLUMNS.
C14_HeaderOnceThenRows ==
    /\ saved = << >> => csv.records = << >>
    /\ saved # << >> =>
         /\ Len(csv.records) = Len(saved) + 1
         /\ csv.records[1] = COLUMNS
         /\ \A k \in 1..Len(saved) :
              /\ csv.records[k + 1] # COLUMNS
              /\ Len(csv.records[k + 1]) = Len(COLUMNS)
              /\ \A c \in 1..Len(COLUMNS) :
                   csv.records[k + 1][c] = CellOf(saved[k].row, COLUMNS[c])

\* three calls, the second with a row of two keys only
C14_ThreeCallsOneHeader ==
    /\ Len(saved) = 3
    /\ Len(csv.records) = 4
    /\ csv.records[1] = COLUMNS
    /\ DOMAIN saved[2].row = { "url", "collected_at" }
    /\ csv.records[3][3] = ""
    /\ csv.records[4][3] = "2"

\* C17: the visual scores of a row come from a screenshot written during
\* the run of that row's URL, or are the defaults; never from the image an
\* earlier URL's run left at SCREENSHOT_PATH.
C17_ScoresFromOwnScreenshot ==
    \A k \in 1..Len(saved) : saved[k].scored \in { 0, saved[k].line }

---------------------------------------------------------------------------
(* The end-to-end scenario *)

\* the run met a site without overlays, search input or guest-checkout
\* control, found a product link, clicked add-to-cart, the cart link and
\* the checkout link, and every navigation settled
PlainShopRun ==
    /\ overlaysLeft = MaxOverlays
    /\ shown = {}
    /\ product_url = "https://shop.example/product/42"
    /\ result = [added |-> "True", cart_reached |-> "True",
                 checkout_reached |-> "True"]
    /\ halted = "none"
    /\ ~fatal

\* C15: such a run returns popup_count = 0, has_guest_checkout = 0 and
\* click_depth_to_checkout = 5.
C15_PlainShopScenario ==
    outcome = "returned" /\ PlainShopRun =>
      /\ defaults.popup_count = 0
      /\ defaults.has_guest_checkout = 0
      /\ defaults.click_depth_to_checkout = 5

\* a returned run over such a site, the guest probe having run to its end
C15_PlainShopReturned ==
    /\ outcome = "returned"
    /\ PlainShopRun
    /\ { "dismiss_home", "dismiss_product", "dismiss_cart", "dismiss_checkout",
         "search", "guest" } \subseteq probed
    /\ defaults.has_search_autosuggest = 0
    /\ screenshot = "taken"

---------------------------------------------------------------------------
(* The search probe *)

\* C16: when the search probe ends, no search input holds the typed query,
\* also when the typing or the wait after it failed.
C16_TypedTextCleared ==
    pc = "quick_buy" => ~text_left

---------------------------------------------------------------------------
(* What _safe_click reports *)

ClickFailed == \E k \in 1..Len(log) : log[k] = "ClickRaised"

\* C18 as claimed: a call in which a visible candidate's click failed is
\* not reported as no-match (False).
C18_ClickFailureDistinguished ==
    halted \in ClickPcs /\ ClickFailed => ReturnedAt(halted) # "False"

\* C18, amended: _safe_click reports two outcomes only.  True says that a
\* candidate was visible and its click succeeded; False says that no click
\* succeeded, whether the candidates were never visible or visible with a
\* failing click.
C18_TwoOutcomes ==
    /\ \A f \in DOMAIN result : result[f] \in { "unset", "True", "False" }
    /\ pc \in { "added_wait", "cart_settle", "checkout_settle" } =>
          ReturnedAt(pc) = "True" /\ ~NoneClicked
    /\ halted \in ClickPcs =>
          /\ ReturnedAt(halted) = "False"
          /\ \A k \in 1..Len(log) : log[k] \in { "WaitRaised", "ClickRaised" }

\* the first add-to-cart candidate was visible and its click failed, no
\* later candidate was visible, and the call returned False
C18_ClickFailureReturnedFalse ==
    /\ halted = "add_to_cart"
    /\ log[1] = "ClickRaised"
    /\ \A k \in 2..Len(log) : log[k] = "WaitRaised"
    /\ result.added = "False"

\* hrefs the sampler is to leave alone, as targets
SkippedTargets == { urljoin(url, h) : h \in { g \in Hrefs : StartsWithSkipped(g) } }

\* C19: the sampler makes at most 10 checks, none of a fragment-only,
\* mailto: or tel: link, and none of a target it has checked before, so the
\* count is at most the number of distinct targets checked.
C19_EachTargetCheckedOnce ==
    pc = "search" =>
      /\ Len(requests) <= LinkSampleCap
      /\ Range(requests) \cap SkippedTargets = {}
      /\ \A j, k \in 1..Len(requests) : j # k => requests[j] # requests[k]
      /\ defaults.broken_link_count <= Cardinality(Range(requests))

---------------------------------------------------------------------------
(* popup_count *)

\* successful overlay-close clicks made so far by a run that started with
\* budget overlays to be presented
ClicksMade(budget) == budget - overlaysLeft

\* C20: popup_count, with the count of the call under way, is the number of
\* successful overlay-close clicks of the primary session, and is at most
\* 20: four passes of at most five dismissals.
C20_PopupCountAtMost20 ==
    /\ defaults.popup_count + count = ClicksMade(ManyOverlays)
    /\ defaults.popup_count <= 4 * OverlayRounds

---------------------------------------------------------------------------
(* Product discovery *)

\* the k-th anchor of page_in was read and its href is not empty
Readable(k) == ~page_in.anchors[k].raises /\ page_in.anchors[k].href # ""

\* positions the three strategies accept
PatternHits ==
    { k \in 1..Len(page_in.anchors) :
        /\ k <= PatternScanCap
        /\ Readable(k)
        /\ page_in.anchors[k].href \in PRODUCT_LINK_PATTERNS }

GridHits ==
    { k \in 1..Len(page_in.grid) : page_in.grid[k] \notin { "RAISE", "" } }

WindowHits ==
    { k \in 1..Len(page_in.anchors) :
        /\ k > WindowSkip
        /\ k <= WindowEnd
        /\ Readable(k)
        /\ StartsWithSlashOrBase(page_in.anchors[k].href)
        /\ ~HasFragment(page_in.anchors[k].href) }

IsLeast(k, S) == k \in S /\ \A j \in S : k <= j

C22_DiscoveryNeverRaises ==
    pc # "find_product" =>
      /\ ~fatal
      /\ page_in.raises =>
            /\ \A k \in GridHits : IsLeast(k, GridHits) =>
                  product_url = urljoin(url, page_in.grid[k])
            /\ GridHits = {} => product_url = None

---------------------------------------------------------------------------
(* Quick-buy probe *)

QuickBuyPcs == { "quick_buy", "quick_buy_pdp" }

\* what a click or typing would change
Touched == <<location, cartStore, text_left, click_depth, overlaysLeft>>

C23_Step ==
    /\ pc \in QuickBuyPcs => UNCHANGED Touched
    /\ pc \in QuickBuyPcs /\ pc' \notin QuickBuyPcs =>
          /\ pc' \in { "find_product", "add_to_cart" }
    /\ pc \notin QuickBuyPcs /\ pc' = "quick_buy" => "quick_buy" \notin probed
    /\ pc \notin QuickBuyPcs /\ pc' = "quick_buy_pdp" =>
          "quick_buy_pdp" \notin probed
    /\ defaults.has_quick_buy = 1 =>
          /\ defaults'.has_quick_buy = 1
          /\ pc' \notin QuickBuyPcs

\* C23: a step of the quick-buy probe changes nothing a click or typing
\* would change; the probe is entered once on the landing page and once
\* more on the product page, and only while has_quick_buy is 0; once
\* has_quick_buy is 1 the probe is not run again and the flag stays 1.
C23_QuickBuyProbe ==
    /\ [](pc \in QuickBuyPcs => defaults.has_quick_buy = 0)
    /\ [](pc = "quick_buy" => location = "home")
    /\ [](pc = "quick_buy_pdp" =>
            location = "product" /\ "quick_buy" \in probed)
    /\ [][C23_Step]_vars

\* the landing page showed no quick buy, the product page did
C23_FoundOnProductPage ==
    /\ pc = "add_to_cart"
    /\ "quick_buy_pdp" \in probed
    /\ defaults.has_quick_buy = 1

---------------------------------------------------------------------------
(* Browsing contexts *)

\* the contexts that may still be open: created and not closed successfully
MaybeOpen == { c \in Ctxs : ctxs[c] \in { "open", "close_failed" } }

\* C24: at every point of a run at most one of the three contexts is open;
\* the cart-persistence context exists only when the primary context was
\* closed, and the mobile context only when the cart-persistence context
\* was closed.
C24_OneContextAtATime ==
    /\ Cardinality(MaybeOpen) <= 1
    /\ ctxs["ctx2"] # "none" => ctxs["ctx"] = "closed"
    /\ ctxs["ctx3"] # "none" => ctxs["ctx"] = "closed" /\ ctxs["ctx2"] = "closed"

\* the mobile context is open after the two others were opened and closed
C24_ThirdContextOpen ==
    /\ ctxs["ctx3"] = "open"
    /\ ctxs["ctx2"] = "closed"
    /\ ctxs["ctx"] = "closed"

---------------------------------------------------------------------------
(* Guest-checkout probe *)

\* what a click of the probe would change
Clickable == <<location, cartStore, click_depth, overlaysLeft>>

\* C25: has_guest_checkout = 1 implies click_depth_to_checkout = 5, in
\* every state and so in every result; the guest-checkout probe runs only
\* on the checkout page with the depth committed, and its steps change
\* nothing a click would change.
C25_GuestImpliesDepthFive ==
    /\ [](defaults.has_guest_checkout = 1 => defaults.click_depth_to_checkout = 5)
    /\ [](pc = "guest" =>
            /\ location = "checkout"
            /\ result.checkout_reached = "True"
            /\ defaults.click_depth_to_checkout = click_depth
            /\ click_depth = 5)
    /\ [][defaults.has_guest_checkout = 0 /\ defaults'.has_guest_checkout = 1 =>
            pc = "guest"]_vars
    /\ [][pc = "guest" => UNCHANGED Clickable]_vars

\* a run returned with guest checkout found
C25_ReturnedWithGuestCheckout ==
    /\ outcome = "returned"
    /\ defaults.has_guest_checkout = 1
    /\ defaults.click_depth_to_checkout = 5
    /\ "guest_checkout" \in shown

---------------------------------------------------------------------------
(* Termination *)

\* a step that stays in a cascade moves on to the next candidate
C26_Step == (pc \in ClickPcs /\ pc' = pc) => (i' = i + 1)

\* C26: every run of get_behavioral_metrics ends, by returning or by
\* raising, when each awaited operation completes or times out; the
\* overlay loop stays within its 5 rounds, and a step that stays in a
\* cascade moves on to the next candidate.
C26_RunTerminates ==
    /\ <>(outcome # "running")
    /\ [](round < OverlayRounds)
    /\ [](pc \in ClickPcs => i <= Len(SelectorsAt(pc)) + 1)
    /\ [][C26_Step]_vars

\* a run returned after all twelve steps and overlays dismissed on the way
C26_FullRunReturned ==
    /\ outcome = "returned"
    /\ pc = "done"
    /\ click_depth = 5
    /\ defaults.popup_count > 0
    /\ sessions_run = { "cart", "mobile" }

====
